---------------------------- MODULE Spec2Model ----------------------------
(***************************************************************************)
(* A model of the Thoughtful AI support assistant (app.py): the text       *)
(* normaliser, the difflib-based matcher, the responder and the Streamlit  *)
(* chat history.                                                           *)
(*                                                                         *)
(* Representation of Python values.  A str is the sequence of its          *)
(* characters, each a one-character string.  A stored answer or response   *)
(* text, which the program only passes around and never looks into, is a   *)
(* sequence holding the whole text as one element.  None is the reserved   *)
(* sequence <<"None">>; no str equals it, since "None" is not one          *)
(* character and every embedded text is a different one.  A float          *)
(* threshold is the pair <<numerator, denominator>> of a rational, and a   *)
(* similarity ratio is such a pair too, compared by cross-multiplication.  *)
(***************************************************************************)
EXTENDS Integers, Sequences, FiniteSets, TLC

None == <<"None">>

\* Python truthiness of a str-or-None value: None and "" are falsy.
Truthy(v) == v # None /\ v # <<>>

Range(s) == {s[i] : i \in 1..Len(s)}

Min2(x, y) == IF x <= y THEN x ELSE y

\* F applied to the value of v.  TLC evaluates v once and hands F the value,
\* where a LET definition is evaluated again wherever it is used.
Bind(v, F(_)) == CHOOSE r \in {F(x) : x \in {v}} : TRUE

\* The list f with every element evaluated (TLC keeps [i \in S |-> e] as a
\* rule and evaluates e at each use).
List(f) == f \o <<>>

IsGreatest(x, S) == \A y \in S : y <= x

IsLeast(x, S) == \A y \in S : x <= y

MaxOf(S) == Bind(S, LAMBDA T : CHOOSE x \in T : IsGreatest(x, T))

MinOf(S) == Bind(S, LAMBDA T : CHOOSE x \in T : IsLeast(x, T))

(***************************************************************************)
(* Characters.  CodeOrder lists the characters of the model by increasing  *)
(* code point, which is the order Python compares str values by.           *)
(***************************************************************************)
UpperCase ==
    <<"A", "B", "C", "D", "E", "F", "G", "H", "I", "J", "K", "L", "M",
      "N", "O", "P", "Q", "R", "S", "T", "U", "V", "W", "X", "Y", "Z">>

LowerCase ==
    <<"a", "b", "c", "d", "e", "f", "g", "h", "i", "j", "k", "l", "m",
      "n", "o", "p", "q", "r", "s", "t", "u", "v", "w", "x", "y", "z">>

Digits == <<"0", "1", "2", "3", "4", "5", "6", "7", "8", "9">>

CodeOrder ==
    <<"\t", " ", "!", "'", "(", ")", ",", "-", ".">> \o Digits \o <<"?">>
        \o UpperCase \o <<"_">> \o LowerCase

CodeOf(c) == CHOOSE i \in 1..Len(CodeOrder) : CodeOrder[i] = c

\* What the regular expression class \s matches.
IsSpace(c) == c \in {" ", "\t"}

\* What the regular expression class \w matches.
IsWord(c) == c \in Range(UpperCase) \cup Range(LowerCase) \cup Range(Digits) \cup {"_"}

\* str.lower() on one character.
lower_char(c) ==
    IF c \in Range(UpperCase)
    THEN LowerCase[CHOOSE i \in 1..Len(UpperCase) : UpperCase[i] = c]
    ELSE c

\* str.lower()
lower(s) == List([i \in 1..Len(s) |-> lower_char(s[i])])

\* str.strip(): what lies between the first and the last character that is
\* not whitespace.
strip(s) ==
    Bind({i \in 1..Len(s) : ~IsSpace(s[i])}, LAMBDA solid :
        IF solid = {} THEN <<>> ELSE SubSeq(s, MinOf(solid), MaxOf(solid)))

\* re.sub(r'[^\w\s]', '', text)
KeepsChar(c) == IsWord(c) \/ IsSpace(c)

remove_punctuation(s) == SelectSeq(s, KeepsChar)

\* re.sub(r'\s+', ' ', text): every maximal run of whitespace becomes one
\* space, that is, the first character of a run becomes a space and the
\* others go.
IsKeptChar(c) == c # ""

collapse_spaces(s) ==
    SelectSeq([i \in 1..Len(s) |->
                  IF ~IsSpace(s[i]) THEN s[i]
                  ELSE IF i > 1 /\ IsSpace(s[i - 1]) THEN "" ELSE " "],
              IsKeptChar)

\* ThoughtfulAIAgent.normalize_text, on a str.
normalize_text(text) ==
    Bind(strip(lower(text)), LAMBDA stripped :
    Bind(remove_punctuation(stripped), LAMBDA cleaned :
         collapse_spaces(cleaned)))

(***************************************************************************)
(* difflib.SequenceMatcher(a = candidate, b = word), as get_close_matches  *)
(* uses it: no junk function, autojunk on.  Indices are Python's: 0-based, *)
(* ranges half-open, so a[i] of Python is a[i + 1] here.                   *)
(***************************************************************************)

\* Rationals <<n, d>> with d > 0.
RatGE(x, y) == x[1] * y[2] >= y[1] * x[2]

RatGT(x, y) == x[1] * y[2] > y[1] * x[2]

RatEQ(x, y) == x[1] * y[2] = y[1] * x[2]

CountOf(s, c) == Cardinality({i \in 1..Len(s) : s[i] = c})

\* The length of b from which autojunk drops "popular" elements.
AutoJunkLen == 200

\* __chain_b: the elements of b left out of b2j because they are popular.
bpopular(b) ==
    IF Len(b) >= AutoJunkLen
    THEN {c \in Range(b) : CountOf(b, c) > (Len(b) \div 100) + 1}
    ELSE {}

\* j2len[j] while row i is scanned: the length of the run of matching,
\* non-popular elements that ends at a[i], b[j] within a[alo:], b[blo:].
RECURSIVE j2len(_, _, _, _, _, _, _)
j2len(a, b, popular, alo, blo, i, j) ==
    IF i < alo \/ j < blo THEN 0
    ELSE IF a[i + 1] # b[j + 1] \/ b[j + 1] \in popular THEN 0
    ELSE 1 + j2len(a, b, popular, alo, blo, i - 1, j - 1)

\* The two extension loops of find_longest_match (bjunk is empty, so the
\* loops over junk do nothing): how far the block grows to the left ...
RECURSIVE extend_left(_, _, _, _, _, _)
extend_left(a, b, alo, blo, i, j) ==
    IF i > alo /\ j > blo /\ a[i] = b[j]
    THEN 1 + extend_left(a, b, alo, blo, i - 1, j - 1)
    ELSE 0

\* ... and to the right, from the first positions i, j after the block.
RECURSIVE extend_right(_, _, _, _, _, _)
extend_right(a, b, ahi, bhi, i, j) ==
    IF i < ahi /\ j < bhi /\ a[i + 1] = b[j + 1]
    THEN 1 + extend_right(a, b, ahi, bhi, i + 1, j + 1)
    ELSE 0

\* The scan of find_longest_match: <<besti, bestj, bestsize>> before the
\* extension loops.  The scan takes a block only when it is strictly longer
\* than the best so far, so of the longest runs the one that ends first in
\* a, and of those the one that ends first in b, is kept.
longest_run(a, b, popular, alo, ahi, blo, bhi) ==
    Bind({<<p[1], p[2], j2len(a, b, popular, alo, blo, p[1], p[2])>> :
            p \in {q \in (alo..(ahi - 1)) \X (blo..(bhi - 1)) :
                     a[q[1] + 1] = b[q[2] + 1]}},
         LAMBDA runs :
    Bind(MaxOf({0} \cup {r[3] : r \in runs}), LAMBDA size :
        IF size = 0 THEN <<alo, blo, 0>>
        ELSE
    Bind(MinOf({r[1] : r \in {q \in runs : q[3] = size}}), LAMBDA endi :
    Bind(MinOf({r[2] : r \in {q \in runs : q[3] = size /\ q[1] = endi}}),
         LAMBDA endj : <<endi - size + 1, endj - size + 1, size>>))))

\* SequenceMatcher.find_longest_match: <<besti, bestj, bestsize>>.
find_longest_match(a, b, popular, alo, ahi, blo, bhi) ==
    Bind(longest_run(a, b, popular, alo, ahi, blo, bhi), LAMBDA m :
    Bind(extend_left(a, b, alo, blo, m[1], m[2]), LAMBDA l :
         <<m[1] - l, m[2] - l,
           m[3] + l + extend_right(a, b, ahi, bhi, m[1] + m[3], m[2] + m[3])>>))

\* SequenceMatcher.get_matching_blocks, summed: the longest block, then the
\* blocks to its left and to its right.
RECURSIVE matching_size(_, _, _, _, _, _, _)
matching_size(a, b, popular, alo, ahi, blo, bhi) ==
    Bind(find_longest_match(a, b, popular, alo, ahi, blo, bhi), LAMBDA m :
        IF m[3] = 0 THEN 0
        ELSE m[3]
             + (IF alo < m[1] /\ blo < m[2]
                THEN matching_size(a, b, popular, alo, m[1], blo, m[2]) ELSE 0)
             + (IF m[1] + m[3] < ahi /\ m[2] + m[3] < bhi
                THEN matching_size(a, b, popular, m[1] + m[3], ahi, m[2] + m[3], bhi)
                ELSE 0))

\* difflib._calculate_ratio
calculate_ratio(matches, length) ==
    IF length > 0 THEN <<2 * matches, length>> ELSE <<1, 1>>

\* SequenceMatcher.ratio
ratio(a, b) ==
    Bind(bpopular(b), LAMBDA popular :
        calculate_ratio(matching_size(a, b, popular, 0, Len(a), 0, Len(b)),
                        Len(a) + Len(b)))

\* SequenceMatcher.quick_ratio: each element of a counts while b still has
\* an occurrence of it left, so the i-th element of a counts when it is at
\* most the CountOf(b, .)-th occurrence of its value in a.
quick_ratio(a, b) ==
    calculate_ratio(
        Cardinality({i \in 1..Len(a) :
                        Cardinality({j \in 1..i : a[j] = a[i]}) <= CountOf(b, a[i])}),
        Len(a) + Len(b))

\* SequenceMatcher.real_quick_ratio
real_quick_ratio(a, b) == calculate_ratio(Min2(Len(a), Len(b)), Len(a) + Len(b))

\* "What does the eligibility verification agent (EVA) do?"
Question1 ==
    <<"W", "h", "a", "t", " ", "d", "o", "e", "s", " ", "t", "h", "e", " ",
       "e", "l", "i", "g", "i", "b", "i", "l", "i", "t", "y", " ", "v", "e",
       "r", "i", "f", "i", "c", "a", "t", "i", "o", "n", " ", "a", "g", "e",
       "n", "t", " ", "(", "E", "V", "A", ")", " ", "d", "o", "?">>

\* "What does the claims processing agent (CAM) do?"
Question2 ==
    <<"W", "h", "a", "t", " ", "d", "o", "e", "s", " ", "t", "h", "e", " ",
       "c", "l", "a", "i", "m", "s", " ", "p", "r", "o", "c", "e", "s", "s",
       "i", "n", "g", " ", "a", "g", "e", "n", "t", " ", "(", "C", "A", "M",
       ")", " ", "d", "o", "?">>

\* "How does the payment posting agent (PHIL) work?"
Question3 ==
    <<"H", "o", "w", " ", "d", "o", "e", "s", " ", "t", "h", "e", " ", "p",
       "a", "y", "m", "e", "n", "t", " ", "p", "o", "s", "t", "i", "n", "g",
       " ", "a", "g", "e", "n", "t", " ", "(", "P", "H", "I", "L", ")", " ",
       "w", "o", "r", "k", "?">>

\* "Tell me about Thoughtful AI's Agents."
Question4 ==
    <<"T", "e", "l", "l", " ", "m", "e", " ", "a", "b", "o", "u", "t", " ",
       "T", "h", "o", "u", "g", "h", "t", "f", "u", "l", " ", "A", "I", "'",
       "s", " ", "A", "g", "e", "n", "t", "s", ".">>

\* "What are the benefits of using Thoughtful AI's agents?"
Question5 ==
    <<"W", "h", "a", "t", " ", "a", "r", "e", " ", "t", "h", "e", " ", "b",
       "e", "n", "e", "f", "i", "t", "s", " ", "o", "f", " ", "u", "s", "i",
       "n", "g", " ", "T", "h", "o", "u", "g", "h", "t", "f", "u", "l", " ",
       "A", "I", "'", "s", " ", "a", "g", "e", "n", "t", "s", "?">>

Answer1 ==
    <<"EVA automates the process of verifying a patient's eligibility and benefits information in real-time, eliminating manual data entry errors and reducing claim rejections.">>

Answer2 ==
    <<"CAM streamlines the submission and management of claims, improving accuracy, reducing manual intervention, and accelerating reimbursements.">>

Answer3 ==
    <<"PHIL automates the posting of payments to patient accounts, ensuring fast, accurate reconciliation of payments and reducing administrative burden.">>

Answer4 ==
    <<"Thoughtful AI provides a suite of AI-powered automation agents designed to streamline healthcare processes. These include Eligibility Verification (EVA), Claims Processing (CAM), and Payment Posting (PHIL), among others.">>

Answer5 ==
    <<"Using Thoughtful AI's Agents can significantly reduce administrative costs, improve operational efficiency, and reduce errors in critical processes like claims management and payment posting.">>

Fallback1 ==
    <<"I'm a specialized assistant for Thoughtful AI's healthcare automation agents. I can help you learn about EVA, CAM, PHIL, and other Thoughtful AI services. Could you ask me something specific about our agents?">>

Fallback2 ==
    <<"I'm designed to assist with questions about Thoughtful AI's automation solutions. Please feel free to ask about our healthcare agents like EVA, CAM, or PHIL.">>

Fallback3 ==
    <<"I specialize in information about Thoughtful AI's healthcare automation agents. How can I help you learn more about our solutions?">>

\* "How's the weather?"
HowsTheWeather ==
    <<"H", "o", "w", "'", "s", " ", "t", "h", "e", " ", "w", "e", "a", "t",
       "h", "e", "r", "?">>

\* "Tell me about EVA"
TellMeAboutEVA ==
    <<"T", "e", "l", "l", " ", "m", "e", " ", "a", "b", "o", "u", "t", " ",
       "E", "V", "A">>

\* "What does EVA do?"
Sample1 ==
    <<"W", "h", "a", "t", " ", "d", "o", "e", "s", " ", "E", "V", "A", " ",
       "d", "o", "?">>

\* "Tell me about CAM"
Sample2 ==
    <<"T", "e", "l", "l", " ", "m", "e", " ", "a", "b", "o", "u", "t", " ",
       "C", "A", "M">>

\* "How does PHIL work?"
Sample3 ==
    <<"H", "o", "w", " ", "d", "o", "e", "s", " ", "P", "H", "I", "L", " ",
       "w", "o", "r", "k", "?">>

\* "What are the benefits of using Thoughtful AI's agents?"
Sample4 ==
    <<"W", "h", "a", "t", " ", "a", "r", "e", " ", "t", "h", "e", " ", "b",
       "e", "n", "e", "f", "i", "t", "s", " ", "o", "f", " ", "u", "s", "i",
       "n", "g", " ", "T", "h", "o", "u", "g", "h", "t", "f", "u", "l", " ",
       "A", "I", "'", "s", " ", "a", "g", "e", "n", "t", "s", "?">>

\* "using thoughtful"
UsingThoughtful ==
    <<"u", "s", "i", "n", "g", " ", "t", "h", "o", "u", "g", "h", "t", "f", "u", "l">>

\* "what is the weather today"
WeatherToday ==
    <<"w", "h", "a", "t", " ", "i", "s", " ", "t", "h", "e", " ", "w", "e",
       "a", "t", "h", "e", "r", " ", "t", "o", "d", "a", "y">>

(***************************************************************************)
(* Outcomes of a Python call: a returned value, or a raised exception.     *)
(***************************************************************************)
NoExc == "none"

Return(v) == [exc |-> NoExc, value |-> v]

Raise(e) == [exc |-> e, value |-> None]

\* Python's < on str: lexicographic by code point, a proper prefix first.
\* i is the first position where x and y differ.
StrLess(x, y) ==
    \E i \in 1..Len(y) :
        /\ i <= Len(x) + 1
        /\ \A j \in 1..(i - 1) : x[j] = y[j]
        /\ (i = Len(x) + 1 \/ CodeOf(x[i]) < CodeOf(y[i]))

\* Python's > on the tuples (score, x) that get_close_matches collects.
ScoredGT(p, q) == RatGT(p[1], q[1]) \/ (RatEQ(p[1], q[1]) /\ StrLess(q[2], p[2]))

\* max by the score alone: the first of the items with the greatest score.
max_item_by_score(items) ==
    items[MinOf({i \in 1..Len(items) :
                    \A j \in 1..Len(items) : ~RatGT(items[j][1], items[i][1])})]

\* max(iterable): the first of the items that no item is greater than.
max_item(items) ==
    items[MinOf({i \in 1..Len(items) :
                    \A j \in 1..Len(items) : ~ScoredGT(items[j], items[i])})]

\* heapq.nlargest(1, result): [] for no items, else [max(result)].
nlargest_one(result) == IF result = <<>> THEN <<>> ELSE <<max_item(result)>>

\* The test with a strict comparison: a ratio equal to the cutoff fails.
passes_cutoff_strict(x, word, cutoff) ==
    /\ RatGE(real_quick_ratio(x, word), cutoff)
    /\ RatGE(quick_ratio(x, word), cutoff)
    /\ RatGT(ratio(x, word), cutoff)

\* The test with the comparison of the ratio reversed.
passes_cutoff_reversed(x, word, cutoff) == RatGE(cutoff, ratio(x, word))

\* The test of get_close_matches on one candidate x against the word.
passes_cutoff(x, word, cutoff) ==
    /\ RatGE(real_quick_ratio(x, word), cutoff)
    /\ RatGE(quick_ratio(x, word), cutoff)
    /\ RatGE(ratio(x, word), cutoff)

\* The list of (score, x) that get_close_matches builds: the candidates that
\* pass, in the order of the possibilities, each with its ratio.
IsKept(e) == e.keep

scored(word, possibilities, cutoff) ==
    Bind(SelectSeq([i \in 1..Len(possibilities) |->
                       [keep |-> passes_cutoff(possibilities[i], word, cutoff),
                        score |-> ratio(possibilities[i], word),
                        x |-> possibilities[i]]],
                   IsKept),
         LAMBDA kept : List([i \in 1..Len(kept) |-> <<kept[i].score, kept[i].x>>]))

\* 0.0 <= cutoff <= 1.0
cutoff_in_range(cutoff) == 0 <= cutoff[1] /\ cutoff[1] <= cutoff[2]

\* difflib.get_close_matches(word, possibilities, n=1, cutoff): the list of
\* the best match, or an exception.  Comparing None with 0.0 is a TypeError.
get_close_matches(word, possibilities, cutoff) ==
    IF cutoff = None THEN Raise("TypeError")
    ELSE IF ~cutoff_in_range(cutoff) THEN Raise("ValueError")
    ELSE Bind(scored(word, possibilities, cutoff), LAMBDA result :
         Bind(nlargest_one(result), LAMBDA best :
              Return(List([i \in 1..Len(best) |-> best[i][2]]))))

(***************************************************************************)
(* ThoughtfulAIAgent                                                       *)
(***************************************************************************)

\* THOUGHTFUL_AI_DATA["questions"]
THOUGHTFUL_AI_DATA ==
    << [question |-> Question1, answer |-> Answer1],
       [question |-> Question2, answer |-> Answer2],
       [question |-> Question3, answer |-> Answer3],
       [question |-> Question4, answer |-> Answer4],
       [question |-> Question5, answer |-> Answer5] >>

FALLBACK_RESPONSES == <<Fallback1, Fallback2, Fallback3>>

\* The threshold=0.4 default of find_best_match.
DefaultThreshold == <<4, 10>>

PleaseAsk ==
    <<"Please ask me a question about Thoughtful AI's healthcare automation agents.">>

\* ThoughtfulAIAgent.__init__ over a catalog: the list of questions, and the
\* dict question -> answer, in which a later entry replaces an earlier one
\* with the same question.
NewAgent(data) ==
    [questions |-> [i \in 1..Len(data) |-> data[i].question],
     qa_dict |->
        [q \in {data[i].question : i \in 1..Len(data)} |->
            data[MaxOf({i \in 1..Len(data) : data[i].question = q})].answer]]

\* list.index(x): the first position of x.
index(list, x) == MinOf({i \in 1..Len(list) : list[i] = x})

\* The body of the try block of find_best_match.  None has no .lower(): an
\* AttributeError.
find_best_match_try(self, user_question, threshold) ==
    IF user_question = None THEN Raise("AttributeError")
    ELSE
    Bind(normalize_text(user_question), LAMBDA normalized_user_question :
    Bind(List([i \in 1..Len(self.questions) |-> normalize_text(self.questions[i])]),
         LAMBDA normalized_questions :
    Bind(get_close_matches(normalized_user_question, normalized_questions,
                           threshold),
         LAMBDA matches :
        IF matches.exc # NoExc THEN matches
        ELSE IF matches.value # <<>>
        THEN Bind(self.questions[index(normalized_questions, matches.value[1])],
                  LAMBDA original_question :
                      Return(<<original_question, self.qa_dict[original_question]>>))
        ELSE Return(<<None, None>>))))

\* find_best_match without its except clause: the exception leaves it.
find_best_match_uncaught(self, user_question, threshold) ==
    Bind(find_best_match_try(self, user_question, threshold), LAMBDA r :
        [exc |-> r.exc, value |-> r.value, st_error |-> <<>>])

\* ThoughtfulAIAgent.find_best_match: the try block, and the except clause
\* that reports the error through st.error and returns (None, None).
find_best_match(self, user_question, threshold) ==
    Bind(find_best_match_try(self, user_question, threshold), LAMBDA r :
        IF r.exc # NoExc
        THEN [exc |-> NoExc, value |-> <<None, None>>, st_error |-> <<r.exc>>]
        ELSE [exc |-> NoExc, value |-> r.value, st_error |-> <<>>])

\* The test without its second half: `not user_question`.
is_blank_unstripped(user_question) == ~Truthy(user_question)

\* `not user_question or not user_question.strip()`
is_blank(user_question) == ~Truthy(user_question) \/ ~Truthy(strip(user_question))

\* A choice that is not random: always the first element.
first_choice(seq, choice) == seq[1]

\* random.choice(seq), drawing the index choice.
random_choice(seq, choice) == seq[choice]

\* ThoughtfulAIAgent.get_response.  choice is the index random.choice draws.
\* The outcome also records the calls made: to find_best_match (with their
\* arguments) and to random.choice.
get_response(self, user_question, choice) ==
    IF is_blank(user_question)
    THEN [exc |-> NoExc, value |-> PleaseAsk, matcher_calls |-> <<>>,
          choices |-> 0, st_error |-> <<>>]
    ELSE
    Bind(find_best_match(self, user_question, DefaultThreshold), LAMBDA m :
        IF m.exc # NoExc
        THEN [exc |-> m.exc, value |-> None,
              matcher_calls |-> <<<<user_question, DefaultThreshold>>>>,
              choices |-> 0, st_error |-> m.st_error]
        ELSE IF Truthy(m.value[2])
        THEN [exc |-> NoExc, value |-> m.value[2],
              matcher_calls |-> <<<<user_question, DefaultThreshold>>>>,
              choices |-> 0, st_error |-> m.st_error]
        ELSE [exc |-> NoExc, value |-> random_choice(FALLBACK_RESPONSES, choice),
              matcher_calls |-> <<<<user_question, DefaultThreshold>>>>,
              choices |-> 1, st_error |-> m.st_error])

(***************************************************************************)
(* The Streamlit page: st.session_state and the handlers of its widgets.   *)
(***************************************************************************)

\* The welcome text of initialize_session_state ...
welcome_message == <<"Hello! I'm your Thoughtful AI customer support assistant. (indented by 8)">>

\* ... and that of the Clear Chat button, the same text indented further.
welcome_message_clear == <<"Hello! I'm your Thoughtful AI customer support assistant. (indented by 12)">>

error_message ==
    <<"I apologize, but I encountered an error while processing your question. Please try again. Error: ...">>

Message(role, content) == [role |-> role, content |-> content]

\* sample_questions of main()
sample_questions == <<Sample1, Sample2, Sample3, Sample4>>

VARIABLES
    catalog,     \* the catalog the agent was built from (THOUGHTFUL_AI_DATA)
    agent,       \* st.session_state.agent: [questions, qa_dict]
    messages,    \* st.session_state.messages
    call_args,   \* the arguments of a direct call of the agent's methods
    call_log     \* the outcomes of the direct calls made so far, in order

vars == <<catalog, agent, messages, call_args, call_log>>

(***************************************************************************)
(* Bounds and input sets.                                                  *)
(***************************************************************************)

\* The longest chat history explored.
MaxMessages == 5

\* The longest user text drawn from QueryAlphabet for get_response and
\* normalize_text.
MaxQueryLen == 3

\* The longest user text drawn from QueryAlphabet for find_best_match, which
\* is tried on every catalog.
MaxMatchLen == 2

\* The largest catalog drawn from QuestionPool.
MaxCatalog == 2

\* How many times in a row normalize_text is applied to a text.
MaxNormalize == 2

QueryAlphabet == {"a", "B", " ", "?"}

RECURSIVE StringsUpTo(_, _)
StringsUpTo(A, n) ==
    IF n = 0 THEN {<<>>}
    ELSE LET S == StringsUpTo(A, n - 1)
         IN  S \cup {Append(s, c) : s \in S, c \in A}

\* Real questions, among them the sample questions of the page.
RealQuestions ==
    {HowsTheWeather, TellMeAboutEVA, UsingThoughtful, WeatherToday,
     Sample1, Sample2, Sample3, Sample4}

\* The texts a user may send: every short text over QueryAlphabet, and the
\* real questions.
UserQuestions == StringsUpTo(QueryAlphabet, MaxQueryLen) \cup RealQuestions

MatchQuestions == StringsUpTo(QueryAlphabet, MaxMatchLen) \cup RealQuestions

\* Catalog questions for the small catalogs: "a", "b", "A?", "ab", "B a".
QuestionPool == {<<"a">>, <<"b">>, <<"A", "?">>, <<"a", "b">>, <<"B", " ", "a">>}

PoolAnswer(i) == <<"answer", ToString(i)>>

\* The sequences of n distinct questions of the pool.
RECURSIVE DistinctSeqs(_)
DistinctSeqs(n) ==
    IF n = 0 THEN {<<>>}
    ELSE {Append(p[1], p[2]) :
            p \in {p \in DistinctSeqs(n - 1) \X QuestionPool : p[2] \notin Range(p[1])}}

\* The catalogs: the embedded one, and every list of at most MaxCatalog
\* distinct pool questions, the i-th entry answering PoolAnswer(i).
Catalogs ==
    {THOUGHTFUL_AI_DATA}
        \cup {[i \in 1..Len(qs) |-> [question |-> qs[i], answer |-> PoolAnswer(i)]] :
                qs \in UNION {DistinctSeqs(n) : n \in 0..MaxCatalog}}

\* Threshold arguments: 0, 0.4, 2/3, 1, two outside [0, 1], and a non-number.
Thresholds == {<<0, 1>>, <<4, 10>>, <<2, 3>>, <<1, 1>>, <<-1, 10>>, <<3, 2>>, None}

\* The texts typed into st.chat_input; it returns only non-empty text.
ChatPrompts ==
    {HowsTheWeather, TellMeAboutEVA, UsingThoughtful, <<" ", " ">>, <<"a">>}

Choices == 1..Len(FALLBACK_RESPONSES)

(***************************************************************************)
(* The page.  Init is the state after the first run of the script:         *)
(* initialize_session_state has stored the welcome message and the agent,  *)
(* and finds both in place on every later run.                             *)
(***************************************************************************)
initialize_session_state ==
    /\ catalog = THOUGHTFUL_AI_DATA
    /\ agent = NewAgent(catalog)
    /\ messages = <<Message("assistant", welcome_message)>>

Init ==
    /\ initialize_session_state
    /\ call_args = None
    /\ call_log = <<>>

\* handle_user_input with a text submitted.  failed: an exception is raised
\* inside the try block by something other than get_response's own code.
handle_user_input(prompt, choice, failed) ==
    /\ Len(messages) + 2 <= MaxMessages
    /\ \E response \in {get_response(agent, prompt, choice)} :
           messages' = messages \o
               <<Message("user", prompt),
                 Message("assistant", IF failed \/ response.exc # NoExc
                                      THEN error_message ELSE response.value)>>
    /\ UNCHANGED <<catalog, agent, call_args, call_log>>

\* The button handler without its second append: the question is stored and
\* the response is not.
sample_button_unanswered(question, choice) ==
    /\ Len(messages) + 2 <= MaxMessages
    /\ messages' = Append(messages, Message("user", question))
    /\ UNCHANGED <<catalog, agent, call_args, call_log>>

\* A sample-question button of main(): no try block here, so an exception
\* of get_response would leave the user message without a reply.
sample_button(question, choice) ==
    /\ Len(messages) + 2 <= MaxMessages
    /\ \E response \in {get_response(agent, question, choice)} :
           messages' =
               IF response.exc # NoExc
               THEN Append(messages, Message("user", question))
               ELSE messages \o <<Message("user", question),
                                  Message("assistant", response.value)>>
    /\ UNCHANGED <<catalog, agent, call_args, call_log>>

\* The Clear Chat button of main().
clear_chat ==
    /\ messages' = <<Message("assistant", welcome_message_clear)>>
    /\ UNCHANGED <<catalog, agent, call_args, call_log>>

ChatInput == \E prompt \in ChatPrompts, choice \in Choices, failed \in BOOLEAN :
                 handle_user_input(prompt, choice, failed)

SampleButton == \E i \in 1..Len(sample_questions), choice \in Choices :
                    sample_button(sample_questions[i], choice)

Next == ChatInput \/ SampleButton \/ clear_chat

Spec == Init /\ [][Next]_vars

(***************************************************************************)
(* Direct calls of find_best_match: one call per behaviour, on a catalog,  *)
(* a user question and a threshold drawn by InitMatch.                     *)
(***************************************************************************)
InitMatch ==
    /\ catalog \in Catalogs
    /\ agent = NewAgent(catalog)
    /\ messages = <<>>
    /\ call_args \in [user_question : MatchQuestions \cup {None},
                      threshold : Thresholds]
    /\ call_log = <<>>

CallFindBestMatch ==
    /\ call_log = <<>>
    /\ call_log' = <<find_best_match(agent, call_args.user_question,
                                     call_args.threshold)>>
    /\ UNCHANGED <<catalog, agent, messages, call_args>>

NextMatch == CallFindBestMatch

SpecMatch == InitMatch /\ [][NextMatch]_vars

(***************************************************************************)
(* Direct calls of get_response on the embedded catalog.                   *)
(***************************************************************************)
InitAgent ==
    /\ catalog = THOUGHTFUL_AI_DATA
    /\ agent = NewAgent(catalog)
    /\ messages = <<>>
    /\ call_args \in [user_question : UserQuestions \cup {None}]
    /\ call_log = <<>>

CallGetResponse ==
    /\ call_log = <<>>
    /\ \E choice \in Choices :
           call_log' = <<get_response(agent, call_args.user_question, choice)>>
    /\ UNCHANGED <<catalog, agent, messages, call_args>>

NextAgent == CallGetResponse

SpecAgent == InitAgent /\ [][NextAgent]_vars

(***************************************************************************)
(* normalize_text applied to a text, and then again to its own result.     *)
(***************************************************************************)
InitNorm ==
    /\ catalog = THOUGHTFUL_AI_DATA
    /\ agent = NewAgent(catalog)
    /\ messages = <<>>
    /\ call_args \in [text : UserQuestions]
    /\ call_log = <<>>

CallNormalize ==
    /\ Len(call_log) < MaxNormalize
    /\ call_log' = Append(call_log,
                          normalize_text(IF call_log = <<>> THEN call_args.text
                                         ELSE call_log[Len(call_log)]))
    /\ UNCHANGED <<catalog, agent, messages, call_args>>

NextNorm == CallNormalize

SpecNorm == InitNorm /\ [][NextNorm]_vars

(***************************************************************************)
(* Properties of find_best_match, over the calls of SpecMatch.             *)
(***************************************************************************)
Called == call_log # <<>>

\* The call's threshold is a number in [0, 1] and its question a str.
WellFormedCall ==
    /\ call_args.user_question # None
    /\ call_args.threshold # None
    /\ 0 <= call_args.threshold[1]
    /\ call_args.threshold[1] <= call_args.threshold[2]

\* The ratio of every catalog question, normalized, against the normalized
\* user question.
CatalogRatios ==
    List([i \in 1..Len(catalog) |->
             ratio(normalize_text(catalog[i].question),
                   normalize_text(call_args.user_question))])

NormalizedCatalog ==
    List([i \in 1..Len(catalog) |-> normalize_text(catalog[i].question)])

\* The entries whose ratio is at least t.
Qualifying(rs, t) == {i \in 1..Len(rs) : RatGE(rs[i], t)}

\* The qualifying entries whose ratio no entry exceeds.
Top(rs, t) == {i \in Qualifying(rs, t) : \A j \in 1..Len(rs) : RatGE(rs[i], rs[j])}

NoMatch == <<None, None>>

\* C1: for a threshold t in [0, 1], find_best_match returns a match exactly
\* when some catalog question has a ratio >= t (a ratio equal to t
\* qualifies); the match is then the original text and the answer of a
\* catalog entry whose ratio is the greatest of the catalog; otherwise the
\* result is (None, None).
C1_MatchIffQualifies ==
    (Called /\ WellFormedCall) =>
        Bind(CatalogRatios, LAMBDA rs :
            /\ call_log[1].exc = NoExc
            /\ (call_log[1].value # NoMatch) <=> (Qualifying(rs, call_args.threshold) # {})
            /\ (Qualifying(rs, call_args.threshold) # {}) =>
                   \E i \in Top(rs, call_args.threshold) :
                       call_log[1].value = <<catalog[i].question, catalog[i].answer>>)

\* A match at a ratio exactly equal to the threshold, of a question whose
\* original text is not its normalized text.
C1_Witness ==
    /\ Called /\ WellFormedCall
    /\ call_log[1].value # NoMatch
    /\ normalize_text(call_log[1].value[1]) # call_log[1].value[1]
    /\ \E i \in 1..Len(catalog) :
           /\ catalog[i].question = call_log[1].value[1]
           /\ RatEQ(CatalogRatios[i], call_args.threshold)
           /\ call_args.threshold[1] > 0

\* C2 as stated: of the entries that share the highest ratio (>= threshold)
\* the first in catalog order is returned.
C2_FirstInCatalogOrderWins ==
    (Called /\ WellFormedCall) =>
        Bind(Top(CatalogRatios, call_args.threshold), LAMBDA top :
            Cardinality(top) >= 2 =>
                call_log[1].value[1] = catalog[MinOf(top)].question)

\* C2, amended: of the entries that share the highest ratio (>= threshold)
\* the one whose normalized text is the greatest in str order is returned,
\* and of several with that same normalized text the first in catalog order.
C2_GreatestTextWins ==
    (Called /\ WellFormedCall) =>
        Bind(Top(CatalogRatios, call_args.threshold), LAMBDA top :
        Bind(NormalizedCatalog, LAMBDA nq :
            Cardinality(top) >= 2 =>
                \E i \in top :
                    /\ call_log[1].value = <<catalog[i].question, catalog[i].answer>>
                    /\ \A j \in top : ~StrLess(nq[i], nq[j])
                    /\ \A j \in top : j < i => nq[j] # nq[i]))

\* A tie at the top that a later entry wins.
C2_Witness ==
    /\ Called /\ WellFormedCall
    /\ Bind(Top(CatalogRatios, call_args.threshold), LAMBDA top :
           /\ Cardinality(top) >= 2
           /\ call_log[1].value[1] # catalog[MinOf(top)].question)

\* C5: whatever the question and the threshold, no exception leaves
\* find_best_match and the result has question and answer both present or
\* both absent; a call that fails inside (a question that is no str, a
\* threshold that is no number or lies outside [0, 1]) is reported through
\* st.error and returns (None, None).
C5_FailuresBecomeNoMatch ==
    Called =>
        /\ call_log[1].exc = NoExc
        /\ (call_log[1].value[1] = None) <=> (call_log[1].value[2] = None)
        /\ ~WellFormedCall =>
               (call_log[1].value = NoMatch /\ call_log[1].st_error # <<>>)
        /\ WellFormedCall => call_log[1].st_error = <<>>

\* A call with a str question and a threshold above 1: a ValueError inside.
C5_Witness ==
    /\ Called
    /\ call_args.user_question # None
    /\ call_args.threshold # None
    /\ call_args.threshold[1] > call_args.threshold[2]
    /\ call_log[1].st_error = <<"ValueError">>
    /\ call_log[1].value = NoMatch

NumericThresholds == Thresholds \ {None}

\* C7 as stated: for any two thresholds t1 < t2, a match at t2 implies a
\* match at t1.  Here t1 is the threshold of the call made.
C7_MonotoneForAnyThresholds ==
    (Called /\ call_args.threshold # None /\ call_log[1].value = NoMatch) =>
        \A t2 \in NumericThresholds :
            RatGT(t2, call_args.threshold) =>
                find_best_match(agent, call_args.user_question, t2).value = NoMatch

\* C7, amended: for any two thresholds 0 <= t1 < t2, a match at t2 implies a
\* match at t1.
C7_MonotoneFromZero ==
    (Called /\ call_args.threshold # None /\ call_args.threshold[1] >= 0
        /\ call_log[1].value = NoMatch) =>
        \A t2 \in NumericThresholds :
            RatGT(t2, call_args.threshold) =>
                find_best_match(agent, call_args.user_question, t2).value = NoMatch

\* No match at the call's threshold in [0, 1], and a match at a lower
\* threshold in [0, 1]: raising the threshold lost the match.
C7_Witness ==
    /\ Called /\ WellFormedCall
    /\ call_log[1].value = NoMatch
    /\ \E t1 \in NumericThresholds :
           /\ t1[1] >= 0
           /\ RatGT(call_args.threshold, t1)
           /\ find_best_match(agent, call_args.user_question, t1).value # NoMatch

(***************************************************************************)
(* Properties of get_response, over the calls of SpecAgent.                *)
(***************************************************************************)

\* The question is None, empty, or made of whitespace only.
BlankQuestion ==
    \/ call_args.user_question = None
    \/ \A i \in 1..Len(call_args.user_question) : IsSpace(call_args.user_question[i])

\* C3: get_response returns the fixed prompt, without calling find_best_match
\* and without drawing a fallback, exactly when the question is None, empty
\* or whitespace only; for every other question find_best_match is called
\* once, with that question and the threshold 0.4.
C3_PromptIffBlank ==
    Called =>
        /\ BlankQuestion <=> (call_log[1].value = PleaseAsk)
        /\ BlankQuestion =>
               (call_log[1].matcher_calls = <<>> /\ call_log[1].choices = 0)
        /\ ~BlankQuestion =>
               /\ Len(call_log[1].matcher_calls) = 1
               /\ call_log[1].matcher_calls[1][1] = call_args.user_question
               /\ RatEQ(call_log[1].matcher_calls[1][2], <<2, 5>>)

\* A question of whitespace only, answered with the prompt.
C3_Witness ==
    /\ Called
    /\ call_args.user_question # None
    /\ Len(call_args.user_question) >= 2
    /\ BlankQuestion
    /\ call_log[1].value = PleaseAsk

\* C4: for a question that is not blank, get_response returns the answer of
\* the entry find_best_match matches, and a member of FALLBACK_RESPONSES
\* when there is no match; for a question without a match every fallback
\* string is a possible response: some draw of random.choice returns it.
C4_AnswerOrAnyFallback ==
    ~BlankQuestion =>
        Bind(find_best_match(agent, call_args.user_question, <<2, 5>>).value,
             LAMBDA match :
            /\ (Called /\ match # NoMatch) =>
                   /\ call_log[1].value = match[2]
                   /\ \E i \in 1..Len(catalog) :
                          /\ catalog[i].question = match[1]
                          /\ catalog[i].answer = call_log[1].value
            /\ (Called /\ match = NoMatch) =>
                   call_log[1].value \in Range(FALLBACK_RESPONSES)
            /\ (~Called /\ match = NoMatch) =>
                   \A k \in 1..Len(FALLBACK_RESPONSES) :
                       \E choice \in Choices :
                           get_response(agent, call_args.user_question, choice).value
                               = FALLBACK_RESPONSES[k])

\* A question without a match answered with the last fallback string.
C4_Witness ==
    /\ Called
    /\ ~BlankQuestion
    /\ call_log[1].choices = 1
    /\ call_log[1].value = FALLBACK_RESPONSES[Len(FALLBACK_RESPONSES)]

\* C8 as stated: "How's the weather?" has no catalog question with a ratio
\* >= 0.4, and get_response returns one of the fallback strings.
C8_WeatherGetsFallback ==
    (Called /\ call_args.user_question = HowsTheWeather) =>
        /\ call_log[1].value \in Range(FALLBACK_RESPONSES)
        /\ Qualifying(CatalogRatios, <<2, 5>>) = {}

\* C9 as stated: "Tell me about EVA" is matched to the question about EVA,
\* and get_response returns the answer stored with it.
C9_TellMeAboutEVAGetsEVA ==
    (Called /\ call_args.user_question = TellMeAboutEVA) =>
        /\ call_log[1].value = Answer1
        /\ find_best_match(agent, TellMeAboutEVA, <<2, 5>>).value
               = <<Question1, Answer1>>

(***************************************************************************)
(* Idempotence of normalize_text, over the behaviours of SpecNorm.         *)
(***************************************************************************)

\* C6 as stated: normalizing a normalized text changes nothing.
C6_NormalizeIdempotent ==
    Len(call_log) >= 2 => call_log[2] = call_log[1]

(***************************************************************************)
(* The chat history, over the behaviours of Spec.                          *)
(***************************************************************************)

\* The history starts with a welcome message of the assistant, has odd
\* length, and after the first entry alternates user, assistant.
HistoryShape ==
    /\ messages # <<>>
    /\ messages[1].role = "assistant"
    /\ messages[1].content \in {welcome_message, welcome_message_clear}
    /\ Len(messages) % 2 = 1
    /\ \A i \in 2..Len(messages) :
           messages[i].role = IF i % 2 = 0 THEN "user" ELSE "assistant"

\* C10: after any sequence of chat inputs, sample buttons and Clear Chat the
\* history has the shape above, and a step that does not make the history
\* longer (only Clear Chat) leaves exactly the single welcome entry.
C10_HistoryAlternates ==
    /\ []HistoryShape
    /\ [][Len(messages') <= Len(messages) =>
            messages' = <<Message("assistant", welcome_message_clear)>>]_vars

\* A full history after a Clear Chat, with an apology as a reply.
C10_Witness ==
    /\ Len(messages) = 5
    /\ messages[1].content = welcome_message_clear
    /\ messages[2].role = "user"
    /\ messages[3].content = error_message
    /\ messages[5].role = "assistant"

=============================================================================
